---- MODULE Spec2Model ----
(***************************************************************************)
(* Model of adalex_ui.utils.build_pagination_data, the windowed-pagination *)
(* helper of the Adalex UI component library.                              *)
(*                                                                         *)
(* Python values are represented as follows:                               *)
(*   - a str is the sequence of its characters (one-character strings);    *)
(*   - an optional value is a sequence of length 0 or 1: None is <<>>,     *)
(*     and a present value v is <<v>>, so that None differs from every     *)
(*     int and from every str, the empty str included;                     *)
(*   - a dict with fixed keys is a record, a list is a sequence.           *)
(***************************************************************************)
EXTENDS Integers, Sequences, FiniteSets, TLC

VARIABLES
  current_page, total_pages, url_pattern, max_visible,
    \* the arguments of a call of build_pagination_data
  pc,        \* where that call stands
  result,    \* what it returned
  request,   \* the query parameters of a table_demo request, if any
  response,  \* what table_demo computed for the request
  heap,      \* the list objects allocated so far, by address
  frame      \* the local variables of each concurrent caller

vars ==
  <<current_page, total_pages, url_pattern, max_visible, pc, result,
    request, response, heap, frame>>

(***************************************************************************)
(* Bounds of the explored inputs.                                          *)
(***************************************************************************)
MaxTotal == 11
MaxVisible == 8

(***************************************************************************)
(* Optional values.                                                        *)
(***************************************************************************)
None == <<>>

Some(v) == <<v>>

IsNone(o) == o = <<>>

(***************************************************************************)
(* The default of the max_visible parameter.                               *)
(***************************************************************************)
DefaultMaxVisible == 7

(***************************************************************************)
(* The literal '{page}' replaced in the url pattern.                       *)
(***************************************************************************)
PageToken == <<"{", "p", "a", "g", "e", "}">>

(***************************************************************************)
(* Url patterns: the ones the repository passes, and patterns without the  *)
(* token, with two tokens, and with braces around the token.               *)
(***************************************************************************)
ItemsPattern ==
  <<"/", "i", "t", "e", "m", "s", "/", "?", "p", "a", "g", "e", "=",
    "{", "p", "a", "g", "e", "}">>

DemoPattern ==
  <<"/", "d", "e", "m", "o", "/", "?", "p", "a", "g", "e", "=",
    "{", "p", "a", "g", "e", "}">>

TablePattern ==
  <<"/", "d", "e", "m", "o", "/", "t", "a", "b", "l", "e", "/", "?",
    "p", "a", "g", "e", "=", "{", "p", "a", "g", "e", "}">>

NoTokenPattern == <<"/", "d", "e", "m", "o", "/">>

TwoTokenPattern ==
  <<"{", "p", "a", "g", "e", "}", "/", "{", "p", "a", "g", "e", "}">>

BracedPattern == <<"{", "{", "p", "a", "g", "e", "}", "}">>

UrlPatterns ==
  {ItemsPattern, DemoPattern, TablePattern, NoTokenPattern, TwoTokenPattern,
   BracedPattern}

(***************************************************************************)
(* str(num): the decimal string of an int, with a leading '-' when         *)
(* negative.                                                               *)
(***************************************************************************)
DigitChar(d) == <<"0", "1", "2", "3", "4", "5", "6", "7", "8", "9">>[d + 1]

RECURSIVE Digits(_)
Digits(n) ==
  IF n < 10 THEN <<DigitChar(n)>>
  ELSE Digits(n \div 10) \o <<DigitChar(n % 10)>>

Str(n) == IF n < 0 THEN <<"-">> \o Digits(0 - n) ELSE Digits(n)

(***************************************************************************)
(* Variant of Replace that replaces the first occurrence only, as          *)
(* s.replace(old, new, 1) does.                                            *)
(***************************************************************************)
RECURSIVE Replace_FirstOnly(_, _, _)
Replace_FirstOnly(s, old, new) ==
  IF Len(s) < Len(old) THEN s
  ELSE IF SubSeq(s, 1, Len(old)) = old
       THEN new \o SubSeq(s, Len(old) + 1, Len(s))
       ELSE <<Head(s)>> \o Replace_FirstOnly(Tail(s), old, new)

(***************************************************************************)
(* s.replace(old, new) for a non-empty old: every non-overlapping          *)
(* occurrence of old, found from the left, is replaced by new.             *)
(***************************************************************************)
RECURSIVE Replace(_, _, _)
Replace(s, old, new) ==
  IF Len(s) < Len(old) THEN s
  ELSE IF SubSeq(s, 1, Len(old)) = old
       THEN new \o Replace(SubSeq(s, Len(old) + 1, Len(s)), old, new)
       ELSE <<Head(s)>> \o Replace(Tail(s), old, new)

(***************************************************************************)
(* url_pattern.replace('{page}', str(num))                                 *)
(***************************************************************************)
PageUrl(pattern, num) == Replace(pattern, PageToken, Str(num))

(***************************************************************************)
(* range(a, b) and list(range(a, b)): a, a+1, ..., b-1; empty when b <= a. *)
(***************************************************************************)
Range(a, b) == IF b > a THEN [i \in 1..(b - a) |-> a + i - 1] ELSE <<>>

(***************************************************************************)
(* The entries of page_numbers made from a range: each number is present.  *)
(***************************************************************************)
Numbers(a, b) == [i \in DOMAIN Range(a, b) |-> Some(Range(a, b)[i])]

(***************************************************************************)
(* Variants of PageNumbers with one boundary moved by one.                 *)
(***************************************************************************)
(* range(1, total_pages) when all pages are shown *)
PageNumbers_ShortAll(cp, tp, mv) ==
  IF tp <= mv
  THEN Numbers(1, tp)
  ELSE LET half == mv \div 2
       IN  IF cp <= half + 1
           THEN Numbers(1, mv - 1) \o <<None, Some(tp)>>
           ELSE IF cp >= tp - half
                THEN <<Some(1), None>> \o Numbers(tp - mv + 3, tp + 1)
                ELSE <<Some(1), None>>
                     \o Numbers(cp - half + 2, cp + half - 1)
                     \o <<None, Some(tp)>>

(* range(1, max_visible) near the start *)
PageNumbers_StartLong(cp, tp, mv) ==
  IF tp <= mv
  THEN Numbers(1, tp + 1)
  ELSE LET half == mv \div 2
       IN  IF cp <= half + 1
           THEN Numbers(1, mv) \o <<None, Some(tp)>>
           ELSE IF cp >= tp - half
                THEN <<Some(1), None>> \o Numbers(tp - mv + 3, tp + 1)
                ELSE <<Some(1), None>>
                     \o Numbers(cp - half + 2, cp + half - 1)
                     \o <<None, Some(tp)>>

(* range(total_pages - max_visible + 2, ...) near the end *)
PageNumbers_EndLong(cp, tp, mv) ==
  IF tp <= mv
  THEN Numbers(1, tp + 1)
  ELSE LET half == mv \div 2
       IN  IF cp <= half + 1
           THEN Numbers(1, mv - 1) \o <<None, Some(tp)>>
           ELSE IF cp >= tp - half
                THEN <<Some(1), None>> \o Numbers(tp - mv + 2, tp + 1)
                ELSE <<Some(1), None>>
                     \o Numbers(cp - half + 2, cp + half - 1)
                     \o <<None, Some(tp)>>

(* the middle run starts at current_page - half + 1 *)
PageNumbers_MiddleLow(cp, tp, mv) ==
  IF tp <= mv
  THEN Numbers(1, tp + 1)
  ELSE LET half == mv \div 2
       IN  IF cp <= half + 1
           THEN Numbers(1, mv - 1) \o <<None, Some(tp)>>
           ELSE IF cp >= tp - half
                THEN <<Some(1), None>> \o Numbers(tp - mv + 3, tp + 1)
                ELSE <<Some(1), None>>
                     \o Numbers(cp - half + 1, cp + half - 1)
                     \o <<None, Some(tp)>>

(* the middle run ends at current_page + half - 1 inclusive *)
PageNumbers_MiddleWide(cp, tp, mv) ==
  IF tp <= mv
  THEN Numbers(1, tp + 1)
  ELSE LET half == mv \div 2
       IN  IF cp <= half + 1
           THEN Numbers(1, mv - 1) \o <<None, Some(tp)>>
           ELSE IF cp >= tp - half
                THEN <<Some(1), None>> \o Numbers(tp - mv + 3, tp + 1)
                ELSE <<Some(1), None>>
                     \o Numbers(cp - half + 2, cp + half)
                     \o <<None, Some(tp)>>

(* range(total_pages - max_visible + 3, total_pages) near the end *)
PageNumbers_EndShort(cp, tp, mv) ==
  IF tp <= mv
  THEN Numbers(1, tp + 1)
  ELSE LET half == mv \div 2
       IN  IF cp <= half + 1
           THEN Numbers(1, mv - 1) \o <<None, Some(tp)>>
           ELSE IF cp >= tp - half
                THEN <<Some(1), None>> \o Numbers(tp - mv + 3, tp)
                ELSE <<Some(1), None>>
                     \o Numbers(cp - half + 2, cp + half - 1)
                     \o <<None, Some(tp)>>

(* range(1, max_visible + 1) near the start *)
PageNumbers_StartFull(cp, tp, mv) ==
  IF tp <= mv
  THEN Numbers(1, tp + 1)
  ELSE LET half == mv \div 2
       IN  IF cp <= half + 1
           THEN Numbers(1, mv + 1) \o <<None, Some(tp)>>
           ELSE IF cp >= tp - half
                THEN <<Some(1), None>> \o Numbers(tp - mv + 3, tp + 1)
                ELSE <<Some(1), None>>
                     \o Numbers(cp - half + 2, cp + half - 1)
                     \o <<None, Some(tp)>>

(* the middle run ends at current_page + half - 3 inclusive *)
PageNumbers_MiddleShort(cp, tp, mv) ==
  IF tp <= mv
  THEN Numbers(1, tp + 1)
  ELSE LET half == mv \div 2
       IN  IF cp <= half + 1
           THEN Numbers(1, mv - 1) \o <<None, Some(tp)>>
           ELSE IF cp >= tp - half
                THEN <<Some(1), None>> \o Numbers(tp - mv + 3, tp + 1)
                ELSE <<Some(1), None>>
                     \o Numbers(cp - half + 2, cp + half - 2)
                     \o <<None, Some(tp)>>

(***************************************************************************)
(* Which pages to show: a list of page numbers and None (an ellipsis).     *)
(***************************************************************************)
PageNumbers(cp, tp, mv) ==
  IF tp <= mv
  THEN Numbers(1, tp + 1)
  ELSE LET half == mv \div 2
       IN  IF cp <= half + 1
           THEN Numbers(1, mv - 1) \o <<None, Some(tp)>>
           ELSE IF cp >= tp - half
                THEN <<Some(1), None>> \o Numbers(tp - mv + 3, tp + 1)
                ELSE <<Some(1), None>>
                     \o Numbers(cp - half + 2, cp + half - 1)
                     \o <<None, Some(tp)>>

(***************************************************************************)
(* Variant of PageDict without the branch on None: the ellipsis entry gets *)
(* a url too, the pattern resolved for str(None).                          *)
(***************************************************************************)
PageDict_NoEllipsisBranch(num, cp, pattern) ==
  IF IsNone(num)
  THEN [number |-> None,
        url |-> Some(Replace(pattern, PageToken, <<"N", "o", "n", "e">>)),
        is_active |-> FALSE, is_ellipsis |-> TRUE]
  ELSE [number |-> num, url |-> Some(PageUrl(pattern, num[1])),
        is_active |-> (num[1] = cp), is_ellipsis |-> FALSE]

(***************************************************************************)
(* The dict appended to pages for one entry of page_numbers.               *)
(***************************************************************************)
PageDict(num, cp, pattern) ==
  IF IsNone(num)
  THEN [number |-> None, url |-> None, is_active |-> FALSE,
        is_ellipsis |-> TRUE]
  ELSE [number |-> num, url |-> Some(PageUrl(pattern, num[1])),
        is_active |-> (num[1] = cp), is_ellipsis |-> FALSE]

(***************************************************************************)
(* The loop that builds pages from page_numbers, in order.                 *)
(***************************************************************************)
Pages(page_numbers, cp, pattern) ==
  [i \in DOMAIN page_numbers |-> PageDict(page_numbers[i], cp, pattern)]

(***************************************************************************)
(* Variant of PrevUrl with the test current_page < 1.                      *)
(***************************************************************************)
PrevUrl_Strict(cp, pattern) ==
  IF cp < 1 THEN None ELSE Some(PageUrl(pattern, cp - 1))

(***************************************************************************)
(* prev_url: None on the first page or before it.                          *)
(***************************************************************************)
PrevUrl(cp, pattern) ==
  IF cp <= 1 THEN None ELSE Some(PageUrl(pattern, cp - 1))

(***************************************************************************)
(* Variant of NextUrl with the test current_page == total_pages.           *)
(***************************************************************************)
NextUrl_Equal(cp, tp, pattern) ==
  IF cp = tp THEN None ELSE Some(PageUrl(pattern, cp + 1))

(***************************************************************************)
(* Variant of NextUrl that clamps the next page into 1..total_pages.       *)
(***************************************************************************)
NextUrl_Clamped(cp, tp, pattern) ==
  IF cp >= tp THEN None
  ELSE Some(PageUrl(pattern, IF cp + 1 < 1 THEN 1 ELSE cp + 1))

(***************************************************************************)
(* next_url: None on the last page or after it.                            *)
(***************************************************************************)
NextUrl(cp, tp, pattern) ==
  IF cp >= tp THEN None ELSE Some(PageUrl(pattern, cp + 1))

(***************************************************************************)
(* The dict returned by build_pagination_data.                             *)
(***************************************************************************)
build_pagination_data(cp, tp, pattern, mv) ==
  [pages    |-> Pages(PageNumbers(cp, tp, mv), cp, pattern),
   prev_url |-> PrevUrl(cp, pattern),
   next_url |-> NextUrl(cp, tp, pattern)]

(***************************************************************************)
(* The value bound to the max_visible parameter: the argument, or the      *)
(* default when the caller passes three arguments.                         *)
(***************************************************************************)
MaxVisibleParam(arg) == IF IsNone(arg) THEN DefaultMaxVisible ELSE arg[1]

(***************************************************************************)
(* Variants of Raises: the arguments are validated before use.             *)
(***************************************************************************)
(* raise when total_pages < 0 or max_visible < 3 *)
Raises_Validated(cp, tp, pattern, mv) == tp < 0 \/ mv < 3

(* raise when the pattern has no '{page}' placeholder *)
Raises_MissingToken(cp, tp, pattern, mv) ==
  \A i \in 1..(Len(pattern) - 5) : SubSeq(pattern, i, i + 5) # PageToken

(***************************************************************************)
(* Whether the call raises instead of returning.  The function has no      *)
(* raise statement and validates nothing, and every operation it applies   *)
(* is total on int and str arguments (// has the divisor 2, range and      *)
(* str.replace accept every int and str), so no call raises.               *)
(***************************************************************************)
Raises(cp, tp, pattern, mv) == FALSE

(***************************************************************************)
(* A caller is about to call build_pagination_data with some arguments;    *)
(* max_visible is None when the argument is omitted.                       *)
(***************************************************************************)
Init ==
  /\ current_page \in -2..(MaxTotal + 2)
  /\ total_pages \in -1..MaxTotal
  /\ url_pattern \in UrlPatterns
  /\ max_visible \in {None} \cup {Some(n) : n \in 1..MaxVisible}
  /\ pc = "call"
  /\ result = None
  /\ request = None
  /\ response = None
  /\ heap = <<>>
  /\ frame = <<>>

(***************************************************************************)
(* The call runs to its return statement, or raises.                       *)
(***************************************************************************)
Call ==
  /\ pc = "call"
  /\ IF Raises(current_page, total_pages, url_pattern,
               MaxVisibleParam(max_visible))
     THEN /\ result' = None
          /\ pc' = "raised"
     ELSE /\ result' = Some(build_pagination_data(
                               current_page, total_pages, url_pattern,
                               MaxVisibleParam(max_visible)))
          /\ pc' = "done"
  /\ UNCHANGED <<current_page, total_pages, url_pattern, max_visible,
                 request, response, heap, frame>>

Next == Call

Spec == Init /\ [][Next]_vars

(***************************************************************************)
(* table_demo (examples/playground/demo/views.py).                         *)
(***************************************************************************)
MaxPageParam == 12

(***************************************************************************)
(* The 100 dummy records and the page size.                                *)
(***************************************************************************)
NumRecords == 100

PageSize == 10

(***************************************************************************)
(* Raw values of the search parameter and values of sort and direction.    *)
(***************************************************************************)
SearchParams ==
  {<<>>, <<" ">>, <<"a", "n", "n">>, <<" ", "a", " ", "b", " ">>,
   <<"a", "&", "b">>}

SortName == <<"n", "a", "m", "e">>

Asc == <<"a", "s", "c">>

Desc == <<"d", "e", "s", "c">>

SortParams == {<<>>, SortName}

DirectionParams == {Asc, Desc}

(***************************************************************************)
(* s.strip(), for the whitespace character ' '.                            *)
(***************************************************************************)
RECURSIVE Strip(_)
Strip(s) ==
  IF s = <<>> THEN s
  ELSE IF Head(s) = " " THEN Strip(Tail(s))
  ELSE IF s[Len(s)] = " " THEN Strip(SubSeq(s, 1, Len(s) - 1))
  ELSE s

(***************************************************************************)
(* urllib.parse.quote_plus on the characters of the modelled parameters:   *)
(* letters and digits are kept, ' ' becomes '+', '&' becomes '%26'.        *)
(***************************************************************************)
QuoteChar(c) ==
  CASE c = " " -> <<"+">>
    [] c = "&" -> <<"%", "2", "6">>
    [] OTHER -> <<c>>

RECURSIVE QuotePlus(_)
QuotePlus(s) ==
  IF s = <<>> THEN <<>> ELSE QuoteChar(Head(s)) \o QuotePlus(Tail(s))

(***************************************************************************)
(* urlencode(params): key=value pairs in insertion order, joined by '&'.   *)
(***************************************************************************)
RECURSIVE UrlEncode(_)
UrlEncode(params) ==
  IF params = <<>> THEN <<>>
  ELSE QuotePlus(Head(params)[1]) \o <<"=">> \o QuotePlus(Head(params)[2])
       \o (IF Len(params) > 1 THEN <<"&">> ELSE <<>>)
       \o UrlEncode(Tail(params))

(***************************************************************************)
(* build_page_url(page_num), closed over the query parameters.             *)
(***************************************************************************)
BuildPageUrl(search_query, sort_key, sort_direction, page_num) ==
  LET params ==
        (IF search_query # <<>>
         THEN << <<<<"s", "e", "a", "r", "c", "h">>, search_query>> >>
         ELSE <<>>)
        \o (IF sort_key # <<>>
            THEN << <<<<"s", "o", "r", "t">>, sort_key>>,
                    <<<<"d", "i", "r", "e", "c", "t", "i", "o", "n">>,
                      sort_direction>> >>
            ELSE <<>>)
        \o << <<<<"p", "a", "g", "e">>, Str(page_num)>> >>
  IN  <<"/", "d", "e", "m", "o", "/", "t", "a", "b", "l", "e", "/", "?">>
      \o UrlEncode(params)

(***************************************************************************)
(* math.ceil(total_records / page_size) if total_records > 0 else 1        *)
(***************************************************************************)
TotalPages(total_records) ==
  IF total_records > 0
  THEN (total_records + PageSize - 1) \div PageSize
  ELSE 1

Min(a, b) == IF a <= b THEN a ELSE b

Max(a, b) == IF a >= b THEN a ELSE b

(***************************************************************************)
(* Variant of ClampPage that only bounds the page from above.              *)
(***************************************************************************)
ClampPage_UpperOnly(page, tp) == Min(page, tp)

(***************************************************************************)
(* max(1, min(page, total_pages))                                          *)
(***************************************************************************)
ClampPage(page, tp) == Max(1, Min(page, tp))

(***************************************************************************)
(* The truth value of an optional str: None and '' are false.              *)
(***************************************************************************)
Truthy(o) == ~IsNone(o) /\ o[1] # <<>>

(***************************************************************************)
(* One iteration of the update: the url of a dict that is not an ellipsis  *)
(* becomes build_page_url(number).                                         *)
(***************************************************************************)
RewritePageInfo(page_info, search_query, sort_key, sort_direction) ==
  IF ~page_info.is_ellipsis
  THEN [page_info EXCEPT
          !.url = Some(BuildPageUrl(search_query, sort_key, sort_direction,
                                    page_info.number[1]))]
  ELSE page_info

(***************************************************************************)
(* The update of the urls with the search and sort parameters: every dict  *)
(* that is not an ellipsis, then prev_url and next_url when they are set.  *)
(***************************************************************************)
RewriteUrls(data, page, search_query, sort_key, sort_direction) ==
  LET url(n) == Some(BuildPageUrl(search_query, sort_key, sort_direction, n))
  IN  [pages |->
         [i \in DOMAIN data.pages |->
            RewritePageInfo(data.pages[i], search_query, sort_key,
                            sort_direction)],
       prev_url |-> IF Truthy(data.prev_url) THEN url(page - 1)
                    ELSE data.prev_url,
       next_url |-> IF Truthy(data.next_url) THEN url(page + 1)
                    ELSE data.next_url]

(***************************************************************************)
(* A request for the table demo arrives.  total_records is the number of   *)
(* records the search leaves of the 100: all of them without a search, any *)
(* number of them with one.                                                *)
(***************************************************************************)
InitTable ==
  /\ \E page \in -1..MaxPageParam, n \in 0..NumRecords,
        search \in SearchParams, sort \in SortParams,
        direction \in DirectionParams :
       /\ Strip(search) = <<>> => n = NumRecords
       /\ request = Some([page |-> page, search |-> search, sort |-> sort,
                          direction |-> direction, total_records |-> n])
  /\ response = None
  /\ current_page = 0
  /\ total_pages = 0
  /\ url_pattern = TablePattern
  /\ max_visible = None
  /\ pc = "idle"
  /\ result = None
  /\ heap = <<>>
  /\ frame = <<>>

(***************************************************************************)
(* table_demo handles the request: it clamps the page, calls               *)
(* build_pagination_data with the three arguments and rewrites the urls.   *)
(***************************************************************************)
TableDemo ==
  /\ pc = "idle"
  /\ ~IsNone(request)
  /\ LET req == request[1]
         search_query == Strip(req.search)
         tp == TotalPages(req.total_records)
         page == ClampPage(req.page, tp)
         data == build_pagination_data(page, tp, TablePattern,
                                       MaxVisibleParam(None))
     IN  /\ current_page' = page
         /\ total_pages' = tp
         /\ url_pattern' = TablePattern
         /\ max_visible' = None
         /\ result' = Some(data)
         /\ pc' = "done"
         /\ response' =
              Some([page |-> page, total_pages |-> tp,
                    pagination_data |->
                      RewriteUrls(data, page, search_query, req.sort,
                                  req.direction)])
  /\ UNCHANGED <<request, heap, frame>>

NextTable == TableDemo

SpecTable == InitTable /\ [][NextTable]_vars

(***************************************************************************)
(* Concurrent callers.  Each caller runs build_pagination_data statement   *)
(* by statement and then, as table_demo does, rewrites the urls of the     *)
(* result it received; the steps of different callers interleave freely.   *)
(* A list is an object on the heap, known by its address, so that two      *)
(* names for one list see each other's changes.                            *)
(***************************************************************************)
NumCallers == 2

Callers == 1..NumCallers

(***************************************************************************)
(* The arguments (current_page, total_pages, max_visible) the callers      *)
(* choose from: a window with an ellipsis, all pages with the default      *)
(* max_visible, and no page at all.                                        *)
(***************************************************************************)
CallerArguments == {<<1, 4, Some(3)>>, <<2, 4, None>>, <<2, 0, None>>}

(***************************************************************************)
(* The search parameter of the rewriting callers.                          *)
(***************************************************************************)
CallerSearch == <<"a", "n", "n">>

(***************************************************************************)
(* Variants of AllocPages in which pages is not a new list per call.       *)
(***************************************************************************)
(* a mutable default argument pages=[]: one list, never emptied *)
AllocPages_Shared(h) ==
  IF h = <<>> THEN [addr |-> 1, heap |-> <<<<>>>>]
  ELSE [addr |-> 1, heap |-> h]

(* a module-level list, emptied at the start of each call *)
AllocPages_Reused(h) ==
  IF h = <<>> THEN [addr |-> 1, heap |-> <<<<>>>>]
  ELSE [addr |-> 1, heap |-> [h EXCEPT ![1] = <<>>]]

(***************************************************************************)
(* pages = []: a new empty list, at a new address.                         *)
(***************************************************************************)
AllocPages(h) == [addr |-> Len(h) + 1, heap |-> Append(h, <<>>)]

(***************************************************************************)
(* The value of the result a caller holds: its dict with the list of       *)
(* pages read from the heap.                                               *)
(***************************************************************************)
Value(h, res) ==
  [pages |-> h[res.pages], prev_url |-> res.prev_url,
   next_url |-> res.next_url]

InitCallers ==
  /\ heap = <<>>
  /\ frame \in
       [Callers ->
          {[pc |-> "start", current_page |-> a[1], total_pages |-> a[2],
            max_visible |-> a[3], pages |-> 0, page_numbers |-> <<>>,
            i |-> 0, result |-> None, returned |-> None]
             : a \in CallerArguments}]
  /\ current_page = 0
  /\ total_pages = 0
  /\ url_pattern = TablePattern
  /\ max_visible = None
  /\ pc = "idle"
  /\ result = None
  /\ request = None
  /\ response = None

(***************************************************************************)
(* pages = [] and the choice of page_numbers.                              *)
(***************************************************************************)
Begin(c) ==
  /\ frame[c].pc = "start"
  /\ LET new == AllocPages(heap)
     IN  /\ heap' = new.heap
         /\ frame' =
              [frame EXCEPT
                 ![c].pc = "loop",
                 ![c].pages = new.addr,
                 ![c].page_numbers =
                   PageNumbers(frame[c].current_page, frame[c].total_pages,
                               MaxVisibleParam(frame[c].max_visible)),
                 ![c].i = 0]

(***************************************************************************)
(* One iteration of the loop over page_numbers: pages.append({...}).       *)
(***************************************************************************)
AppendPage(c) ==
  /\ frame[c].pc = "loop"
  /\ frame[c].i < Len(frame[c].page_numbers)
  /\ heap' =
       [heap EXCEPT
          ![frame[c].pages] =
            Append(@, PageDict(frame[c].page_numbers[frame[c].i + 1],
                               frame[c].current_page, TablePattern))]
  /\ frame' = [frame EXCEPT ![c].i = @ + 1]

(***************************************************************************)
(* After the loop: prev_url, next_url and the return of a new dict that    *)
(* refers to the pages list.  returned keeps the value of the result as    *)
(* the caller received it.                                                 *)
(***************************************************************************)
Return(c) ==
  /\ frame[c].pc = "loop"
  /\ frame[c].i = Len(frame[c].page_numbers)
  /\ LET res == [pages |-> frame[c].pages,
                 prev_url |-> PrevUrl(frame[c].current_page, TablePattern),
                 next_url |-> NextUrl(frame[c].current_page,
                                      frame[c].total_pages, TablePattern)]
     IN  frame' = [frame EXCEPT ![c].pc = "returned",
                                ![c].result = Some(res),
                                ![c].returned = Some(Value(heap, res)),
                                ![c].i = 0]
  /\ UNCHANGED heap

(***************************************************************************)
(* One iteration of the caller's loop over pagination_data['pages'].       *)
(***************************************************************************)
RewritePage(c) ==
  /\ frame[c].pc \in {"returned", "rewriting"}
  /\ frame[c].i < Len(heap[frame[c].pages])
  /\ heap' =
       [heap EXCEPT
          ![frame[c].pages][frame[c].i + 1] =
            RewritePageInfo(@, CallerSearch, <<>>, Asc)]
  /\ frame' = [frame EXCEPT ![c].pc = "rewriting", ![c].i = @ + 1]

(***************************************************************************)
(* After that loop: prev_url and next_url are rewritten when they are set. *)
(***************************************************************************)
RewritePrevNext(c) ==
  /\ frame[c].pc \in {"returned", "rewriting"}
  /\ frame[c].i >= Len(heap[frame[c].pages])
  /\ LET res == frame[c].result[1]
         url(n) == Some(BuildPageUrl(CallerSearch, <<>>, Asc, n))
     IN  frame' =
           [frame EXCEPT
              ![c].pc = "finished",
              ![c].result =
                Some([res EXCEPT
                        !.prev_url =
                          IF Truthy(@) THEN url(frame[c].current_page - 1)
                          ELSE @,
                        !.next_url =
                          IF Truthy(@) THEN url(frame[c].current_page + 1)
                          ELSE @])]
  /\ UNCHANGED heap

CallerStep(c) ==
  /\ \/ Begin(c)
     \/ AppendPage(c)
     \/ Return(c)
     \/ RewritePage(c)
     \/ RewritePrevNext(c)
  /\ UNCHANGED <<current_page, total_pages, url_pattern, max_visible, pc,
                 result, request, response>>

NextCallers == \E c \in Callers : CallerStep(c)

SpecCallers == InitCallers /\ [][NextCallers]_vars

(***************************************************************************)
(* Shorthands for the properties below.                                    *)
(***************************************************************************)
Done == pc = "done"

Returned == result[1]

ReturnedPages == Returned.pages

Mv == MaxVisibleParam(max_visible)

Half == Mv \div 2

ActiveIndices == {i \in DOMAIN ReturnedPages : ReturnedPages[i].is_active}

IsNumbered(d, n) == ~d.is_ellipsis /\ d.number = Some(n)

IsEllipsisDict(d) ==
  d.is_ellipsis /\ IsNone(d.number) /\ IsNone(d.url) /\ ~d.is_active

(***************************************************************************)
(* C1: for total_pages >= 1, max_visible >= 3 and                          *)
(* 1 <= current_page <= total_pages, the returned pages hold exactly one   *)
(* dict with is_active true, and its number is current_page.               *)
(* The code does not satisfy this for max_visible 3 and 4.                 *)
(***************************************************************************)
C1_ExactlyOneActive ==
  (Done /\ total_pages >= 1 /\ Mv >= 3
        /\ 1 <= current_page /\ current_page <= total_pages)
  => /\ Cardinality(ActiveIndices) = 1
     /\ \A i \in ActiveIndices : IsNumbered(ReturnedPages[i], current_page)

(***************************************************************************)
(* C2: for total_pages >= 0, max_visible >= 3 and any current_page, the    *)
(* number of returned dicts (numbered and ellipsis) never exceeds          *)
(* max_visible.  The code does not satisfy this in the middle mode for     *)
(* max_visible 3 and for even max_visible.                                 *)
(***************************************************************************)
C2_SlotCountBounded ==
  (Done /\ total_pages >= 0 /\ Mv >= 3) => Len(ReturnedPages) <= Mv

(***************************************************************************)
(* C3: for 0 <= total_pages <= max_visible and any current_page, pages has *)
(* exactly total_pages dicts, none an ellipsis, numbered 1..total_pages in *)
(* increasing order; the dict of current_page, and only it, is active.     *)
(***************************************************************************)
C3_ShowAllPages ==
  (Done /\ total_pages >= 0 /\ total_pages <= Mv)
  => /\ Len(ReturnedPages) = total_pages
     /\ \A i \in DOMAIN ReturnedPages :
          /\ IsNumbered(ReturnedPages[i], i)
          /\ ReturnedPages[i].is_active = (i = current_page)

C3_Witness ==
  /\ Done /\ current_page = 2 /\ total_pages = 3 /\ IsNone(max_visible)
  /\ Len(ReturnedPages) = 3
  /\ ReturnedPages[2].is_active

(***************************************************************************)
(* C4: prev_url is None iff current_page <= 1 and next_url is None iff     *)
(* current_page >= total_pages; otherwise they are the pattern resolved    *)
(* for current_page - 1 and current_page + 1.                              *)
(***************************************************************************)
C4_PrevNextUrls ==
  Done
  => /\ IsNone(Returned.prev_url) <=> current_page <= 1
     /\ IsNone(Returned.next_url) <=> current_page >= total_pages
     /\ current_page > 1
        => Returned.prev_url = Some(PageUrl(url_pattern, current_page - 1))
     /\ current_page < total_pages
        => Returned.next_url = Some(PageUrl(url_pattern, current_page + 1))

C4_Witness ==
  /\ Done /\ current_page = 3 /\ total_pages = 3
  /\ url_pattern = DemoPattern
  /\ Returned.prev_url
       = Some(<<"/", "d", "e", "m", "o", "/", "?", "p", "a", "g", "e", "=",
                "2">>)
  /\ IsNone(Returned.next_url)

(***************************************************************************)
(* C5: for total_pages >= 0, max_visible >= 3 and any current_page, every  *)
(* returned dict is either an ellipsis (number None, url None, not active) *)
(* or numbered (is_ellipsis false, 1 <= number <= total_pages); is_ellipsis*)
(* holds exactly when number is None.                                      *)
(***************************************************************************)
C5_DescriptorShape ==
  (Done /\ total_pages >= 0 /\ Mv >= 3)
  => \A i \in DOMAIN ReturnedPages :
       LET d == ReturnedPages[i]
       IN  /\ d.is_ellipsis <=> IsNone(d.number)
           /\ d.is_ellipsis => IsEllipsisDict(d)
           /\ ~d.is_ellipsis
              => /\ Len(d.number) = 1
                 /\ 1 <= d.number[1] /\ d.number[1] <= total_pages

C5_Witness ==
  /\ Done /\ total_pages > Mv /\ Mv >= 3
  /\ \E i, j \in DOMAIN ReturnedPages :
       /\ IsEllipsisDict(ReturnedPages[i])
       /\ IsNumbered(ReturnedPages[j], total_pages)

(***************************************************************************)
(* The length of range(a, b).                                              *)
(***************************************************************************)
RunLength(a, b) == IF b > a THEN b - a ELSE 0

(***************************************************************************)
(* The dicts d[from + 1], ..., d[from + n] are numbered first, first + 1,  *)
(* ..., first + n - 1.                                                     *)
(***************************************************************************)
IsRun(from, n, first) ==
  \A k \in 1..n : IsNumbered(ReturnedPages[from + k], first + k - 1)

InMiddle ==
  /\ total_pages > Mv
  /\ current_page > Half + 1
  /\ current_page < total_pages - Half

NearStart == total_pages > Mv /\ current_page <= Half + 1

NearEnd ==
  /\ total_pages > Mv
  /\ current_page > Half + 1
  /\ current_page >= total_pages - Half

(***************************************************************************)
(* C6: in the middle mode (total_pages > max_visible, current_page >       *)
(* half + 1, current_page < total_pages - half, half = max_visible // 2)   *)
(* pages is exactly: page 1, one ellipsis, the pages                       *)
(* current_page-half+2 .. current_page+half-2, one ellipsis, total_pages.  *)
(***************************************************************************)
C6_MiddleWindow ==
  (Done /\ InMiddle)
  => LET n == RunLength(current_page - Half + 2, current_page + Half - 1)
     IN  /\ Len(ReturnedPages) = n + 4
         /\ IsNumbered(ReturnedPages[1], 1)
         /\ IsEllipsisDict(ReturnedPages[2])
         /\ IsRun(2, n, current_page - Half + 2)
         /\ n > 0 => IsNumbered(ReturnedPages[n + 2], current_page + Half - 2)
         /\ IsEllipsisDict(ReturnedPages[n + 3])
         /\ IsNumbered(ReturnedPages[n + 4], total_pages)

C6_Witness ==
  /\ Done /\ InMiddle
  /\ current_page = 5 /\ total_pages = 11 /\ max_visible = Some(6)
  /\ Len(ReturnedPages) = 7
  /\ IsNumbered(ReturnedPages[5], 6)

(***************************************************************************)
(* The url "/items/?page=" followed by the given digits.                   *)
(***************************************************************************)
ItemsUrl(digits) ==
  Some(<<"/", "i", "t", "e", "m", "s", "/", "?", "p", "a", "g", "e", "=">>
       \o digits)

ItemsPage(n, digits, active) ==
  [number |-> Some(n), url |-> ItemsUrl(digits), is_active |-> active,
   is_ellipsis |-> FALSE]

EllipsisPage ==
  [number |-> None, url |-> None, is_active |-> FALSE, is_ellipsis |-> TRUE]

IsDocExample ==
  /\ Done /\ current_page = 5 /\ total_pages = 10
  /\ url_pattern = ItemsPattern /\ IsNone(max_visible)

(***************************************************************************)
(* C7 as stated: build_pagination_data(5, 10, "/items/?page={page}") with  *)
(* the default max_visible returns pages that begin 1 (not active),        *)
(* ellipsis, 4, 5 (active), 6, 7, ellipsis.  The code returns no page 7.   *)
(***************************************************************************)
C7_Original ==
  IsDocExample
  => /\ Len(ReturnedPages) >= 7
     /\ IsNumbered(ReturnedPages[1], 1) /\ ~ReturnedPages[1].is_active
     /\ IsEllipsisDict(ReturnedPages[2])
     /\ IsNumbered(ReturnedPages[3], 4)
     /\ IsNumbered(ReturnedPages[4], 5) /\ ReturnedPages[4].is_active
     /\ IsNumbered(ReturnedPages[5], 6)
     /\ IsNumbered(ReturnedPages[6], 7)
     /\ IsEllipsisDict(ReturnedPages[7])

(***************************************************************************)
(* C7 amended: build_pagination_data(5, 10, "/items/?page={page}") with    *)
(* the default max_visible returns exactly the pages 1 (not active),       *)
(* ellipsis, 4, 5 (active), 6, ellipsis, 10, each numbered one with the    *)
(* url "/items/?page=<number>".                                            *)
(***************************************************************************)
C7_DocExample ==
  IsDocExample
  => ReturnedPages
       = <<ItemsPage(1, <<"1">>, FALSE), EllipsisPage,
           ItemsPage(4, <<"4">>, FALSE), ItemsPage(5, <<"5">>, TRUE),
           ItemsPage(6, <<"6">>, FALSE), EllipsisPage,
           ItemsPage(10, <<"1", "0">>, FALSE)>>

C7_Witness ==
  /\ IsDocExample
  /\ Len(ReturnedPages) = 7
  /\ ReturnedPages[4].is_active
  /\ IsEllipsisDict(ReturnedPages[6])

C9_NearEnd ==
  (Done /\ NearEnd)
  => LET n == RunLength(total_pages - Mv + 3, total_pages + 1)
     IN  /\ Len(ReturnedPages) = n + 2
         /\ IsNumbered(ReturnedPages[1], 1)
         /\ IsEllipsisDict(ReturnedPages[2])
         /\ IsRun(2, n, total_pages - Mv + 3)
         /\ n > 0 => IsNumbered(ReturnedPages[n + 2], total_pages)
         /\ current_page >= total_pages => IsNone(Returned.next_url)

C9_Witness ==
  /\ Done /\ NearEnd
  /\ current_page = 10 /\ total_pages = 10 /\ IsNone(max_visible)
  /\ Len(ReturnedPages) = 7
  /\ IsNumbered(ReturnedPages[3], 6)
  /\ IsNumbered(ReturnedPages[7], 10)
  /\ IsNone(Returned.next_url)

(***************************************************************************)
(* C10 as stated: when total_pages = 0, for every current_page >= 1 the    *)
(* result has empty pages, prev_url None and next_url None.  The code      *)
(* returns a prev_url for current_page >= 2.                               *)
(***************************************************************************)
C10_Original ==
  (Done /\ total_pages = 0 /\ current_page >= 1)
  => /\ ReturnedPages = <<>>
     /\ IsNone(Returned.prev_url)
     /\ IsNone(Returned.next_url)

(***************************************************************************)
(* C10 amended: when total_pages = 0, for every current_page >= 1 the      *)
(* result has empty pages and next_url None; prev_url is None only for     *)
(* current_page = 1, and for current_page >= 2 it is the pattern resolved  *)
(* for current_page - 1.                                                   *)
(***************************************************************************)
C10_NoPages ==
  (Done /\ total_pages = 0 /\ current_page >= 1)
  => /\ ReturnedPages = <<>>
     /\ IsNone(Returned.next_url)
     /\ IsNone(Returned.prev_url) <=> current_page = 1
     /\ current_page >= 2
        => Returned.prev_url = Some(PageUrl(url_pattern, current_page - 1))

C10_Witness ==
  /\ Done /\ total_pages = 0 /\ current_page = 3
  /\ url_pattern = TablePattern
  /\ ReturnedPages = <<>>
  /\ IsNone(Returned.next_url)
  /\ Returned.prev_url
       = Some(<<"/", "d", "e", "m", "o", "/", "t", "a", "b", "l", "e", "/",
                "?", "p", "a", "g", "e", "=", "2">>)

(***************************************************************************)
(* The call has ended, by a return or by an exception.                     *)
(***************************************************************************)
Ended == pc # "call"

InvalidArguments == total_pages < 0 \/ Mv < 3

(***************************************************************************)
(* C11 as stated: the call fails (with InvalidArgument) instead of         *)
(* returning whenever total_pages < 0 or max_visible < 3, and fails in no  *)
(* other case.  The code validates nothing and returns a result.           *)
(***************************************************************************)
C11_Original == Ended => (pc = "raised" <=> InvalidArguments)

(***************************************************************************)
(* C11 amended: the call surfaces no error at all; when total_pages < 0 or *)
(* max_visible < 3 it returns a result, whose pages list is empty when     *)
(* total_pages < 0 <= max_visible.                                         *)
(***************************************************************************)
C11_NoError ==
  Ended
  => /\ pc = "done"
     /\ Len(result) = 1
     /\ DOMAIN Returned = {"pages", "prev_url", "next_url"}
     /\ (total_pages < 0 /\ Mv >= 0) => ReturnedPages = <<>>

C11_Witness ==
  /\ Done /\ total_pages = 0 - 1 /\ max_visible = Some(2)
  /\ current_page = 1
  /\ ReturnedPages = <<>>
  /\ IsNone(Returned.prev_url) /\ IsNone(Returned.next_url)

(***************************************************************************)
(* The positions of url_pattern where the literal '{page}' starts.  Two    *)
(* occurrences never overlap: '{' is only the first character of it.       *)
(***************************************************************************)
TokenStarts(p) ==
  {i \in 1..(Len(p) - Len(PageToken) + 1) :
     SubSeq(p, i, i + Len(PageToken) - 1) = PageToken}

(***************************************************************************)
(* u is p with every '{page}' replaced by s and nothing else changed:      *)
(* position by position, without reference to Replace.                     *)
(***************************************************************************)
IsSubstituted(p, s, u) ==
  LET starts == TokenStarts(p)
      grow == Len(s) - Len(PageToken)
      shift(i) == Cardinality({j \in starts : j < i}) * grow
      inToken(i) == \E j \in starts : j <= i /\ i < j + Len(PageToken)
  IN  /\ Len(u) = Len(p) + Cardinality(starts) * grow
      /\ \A i \in 1..Len(p) :
           IF i \in starts
           THEN SubSeq(u, i + shift(i), i + shift(i) + Len(s) - 1) = s
           ELSE inToken(i) \/ u[i + shift(i)] = p[i]

DigitValue(c) ==
  CASE c = "0" -> 0 [] c = "1" -> 1 [] c = "2" -> 2 [] c = "3" -> 3
    [] c = "4" -> 4 [] c = "5" -> 5 [] c = "6" -> 6 [] c = "7" -> 7
    [] c = "8" -> 8 [] c = "9" -> 9 [] OTHER -> 0 - 1

RECURSIVE DecimalValue(_)
DecimalValue(s) ==
  IF s = <<>> THEN 0
  ELSE 10 * DecimalValue(SubSeq(s, 1, Len(s) - 1)) + DigitValue(s[Len(s)])

(***************************************************************************)
(* s is the decimal string of the int n: digits without leading zero that  *)
(* read as |n|, after a '-' when n is negative.                            *)
(***************************************************************************)
IsDecimalOf(s, n) ==
  LET digits == IF n < 0 THEN Tail(s) ELSE s
      abs == IF n < 0 THEN 0 - n ELSE n
  IN  /\ Len(s) >= 1
      /\ n < 0 => s[1] = "-"
      /\ Len(digits) >= 1
      /\ \A i \in 1..Len(digits) : DigitValue(digits[i]) >= 0
      /\ Len(digits) > 1 => digits[1] # "0"
      /\ DecimalValue(digits) = abs

IsUrlFor(u, n) ==
  /\ Len(u) = 1
  /\ IsDecimalOf(Str(n), n)
  /\ IsSubstituted(url_pattern, Str(n), u[1])

(***************************************************************************)
(* C12: the url of every numbered dict, and each prev_url / next_url that  *)
(* is not None, is url_pattern with every literal '{page}' replaced by the *)
(* decimal string of the page number (the dict's number, current_page - 1, *)
(* current_page + 1) and nothing else changed.                             *)
(***************************************************************************)
C12_UrlSubstitution ==
  Done
  => /\ \A i \in DOMAIN ReturnedPages :
          ~ReturnedPages[i].is_ellipsis
          => IsUrlFor(ReturnedPages[i].url, ReturnedPages[i].number[1])
     /\ ~IsNone(Returned.prev_url)
        => IsUrlFor(Returned.prev_url, current_page - 1)
     /\ ~IsNone(Returned.next_url)
        => IsUrlFor(Returned.next_url, current_page + 1)

C12_Witness ==
  /\ Done /\ url_pattern = TwoTokenPattern
  /\ current_page = 0 - 2 /\ total_pages = 11 /\ IsNone(max_visible)
  /\ ReturnedPages[7].url
       = Some(<<"1", "1", "/", "1", "1">>)
  /\ Returned.next_url = Some(<<"-", "1", "/", "-", "1">>)

(***************************************************************************)
(* C13: when url_pattern does not contain '{page}', the call raises no     *)
(* error and the url of every numbered dict, and each prev_url / next_url  *)
(* that is not None, is url_pattern unchanged.                             *)
(***************************************************************************)
C13_NoPlaceholder ==
  (Ended /\ TokenStarts(url_pattern) = {})
  => /\ Done
     /\ \A i \in DOMAIN ReturnedPages :
          ~ReturnedPages[i].is_ellipsis
          => ReturnedPages[i].url = Some(url_pattern)
     /\ Returned.prev_url \in {None, Some(url_pattern)}
     /\ Returned.next_url \in {None, Some(url_pattern)}

C13_Witness ==
  /\ Done /\ url_pattern = NoTokenPattern
  /\ current_page = 2 /\ total_pages = 3
  /\ Len(ReturnedPages) = 3
  /\ ReturnedPages[1].url = Some(<<"/", "d", "e", "m", "o", "/">>)
  /\ Returned.prev_url = Some(<<"/", "d", "e", "m", "o", "/">>)
  /\ Returned.next_url = Some(<<"/", "d", "e", "m", "o", "/">>)

(***************************************************************************)
(* C14 as stated: for total_pages >= 1 and current_page > total_pages (or  *)
(* current_page < 1) the call returns, no dict is active, and prev_url (or *)
(* next_url) is resolved for current_page - 1 (or current_page + 1), a     *)
(* page number outside 1..total_pages.  For current_page = total_pages + 1 *)
(* (or 0) that page number is total_pages (or 1), inside the range.        *)
(***************************************************************************)
C14_Original ==
  (Ended /\ total_pages >= 1)
  => /\ current_page > total_pages
        => /\ Done /\ ActiveIndices = {}
           /\ Returned.prev_url
                = Some(PageUrl(url_pattern, current_page - 1))
           /\ current_page - 1 \notin 1..total_pages
     /\ current_page < 1
        => /\ Done /\ ActiveIndices = {}
           /\ Returned.next_url
                = Some(PageUrl(url_pattern, current_page + 1))
           /\ current_page + 1 \notin 1..total_pages

(***************************************************************************)
(* C14 amended: for total_pages >= 1 and current_page > total_pages (or    *)
(* current_page < 1) the call returns, no dict is active, and prev_url (or *)
(* next_url) is resolved for the unclamped current_page - 1 (or            *)
(* current_page + 1); that page number lies outside 1..total_pages exactly *)
(* when current_page > total_pages + 1 (or current_page < 0).              *)
(***************************************************************************)
C14_NoClamping ==
  (Ended /\ total_pages >= 1)
  => /\ current_page > total_pages
        => /\ Done /\ ActiveIndices = {}
           /\ Returned.prev_url
                = Some(PageUrl(url_pattern, current_page - 1))
           /\ IsNone(Returned.next_url)
           /\ current_page - 1 \notin 1..total_pages
              <=> current_page > total_pages + 1
     /\ current_page < 1
        => /\ Done /\ ActiveIndices = {}
           /\ Returned.next_url
                = Some(PageUrl(url_pattern, current_page + 1))
           /\ IsNone(Returned.prev_url)
           /\ current_page + 1 \notin 1..total_pages
              <=> current_page < 0

C14_Witness ==
  /\ Done /\ total_pages = 3 /\ current_page = 5
  /\ url_pattern = ItemsPattern
  /\ Len(ReturnedPages) = 3
  /\ ActiveIndices = {}
  /\ Returned.prev_url = ItemsUrl(<<"4">>)

NumberedIndices == {i \in DOMAIN ReturnedPages : ~ReturnedPages[i].is_ellipsis}

(***************************************************************************)
(* C17: for total_pages >= 1, max_visible >= 3 and any current_page, the   *)
(* numbered dicts appear in strictly increasing order (so without          *)
(* duplicates), the first dict is page 1 and the last is page total_pages. *)
(***************************************************************************)
C17_IncreasingFirstLast ==
  (Done /\ total_pages >= 1 /\ Mv >= 3)
  => /\ Len(ReturnedPages) >= 1
     /\ IsNumbered(ReturnedPages[1], 1)
     /\ IsNumbered(ReturnedPages[Len(ReturnedPages)], total_pages)
     /\ \A i, j \in NumberedIndices :
          i < j => ReturnedPages[i].number[1] < ReturnedPages[j].number[1]

C17_Witness ==
  /\ Done /\ current_page = 6 /\ total_pages = 11 /\ max_visible = Some(8)
  /\ Len(ReturnedPages) = 9
  /\ IsNumbered(ReturnedPages[1], 1)
  /\ IsNumbered(ReturnedPages[3], 4)
  /\ IsNumbered(ReturnedPages[7], 8)
  /\ IsNumbered(ReturnedPages[9], 11)

(***************************************************************************)
(* C18: for max_visible >= 4, total_pages > max_visible and any            *)
(* current_page, each ellipsis dict sits between two numbered dicts whose  *)
(* numbers differ by at least 2: it neither starts nor ends the list and   *)
(* has no ellipsis next to it.                                             *)
(***************************************************************************)
C18_EllipsisHidesPages ==
  (Done /\ Mv >= 4 /\ total_pages > Mv)
  => \A i \in DOMAIN ReturnedPages :
       ReturnedPages[i].is_ellipsis
       => /\ 1 < i /\ i < Len(ReturnedPages)
          /\ ~ReturnedPages[i - 1].is_ellipsis
          /\ ~ReturnedPages[i + 1].is_ellipsis
          /\ ReturnedPages[i + 1].number[1] - ReturnedPages[i - 1].number[1]
               >= 2

C18_Witness ==
  /\ Done /\ current_page = 4 /\ total_pages = 7 /\ max_visible = Some(4)
  /\ Len(ReturnedPages) = 5
  /\ ReturnedPages[2].is_ellipsis /\ ReturnedPages[4].is_ellipsis
  /\ IsNumbered(ReturnedPages[3], 4)
  /\ IsNumbered(ReturnedPages[5], 7)

(***************************************************************************)
(* C19: with the default max_visible, for total_pages >= 1 and             *)
(* 1 <= current_page <= total_pages, pages has a numbered dict for         *)
(* current_page - 1 when current_page > 1 and for current_page + 1 when    *)
(* current_page < total_pages, and its url is prev_url / next_url.         *)
(***************************************************************************)
C19_NeighboursShown ==
  (Done /\ IsNone(max_visible) /\ total_pages >= 1
        /\ 1 <= current_page /\ current_page <= total_pages)
  => /\ current_page > 1
        => \E i \in DOMAIN ReturnedPages :
             /\ IsNumbered(ReturnedPages[i], current_page - 1)
             /\ ReturnedPages[i].url = Returned.prev_url
     /\ current_page < total_pages
        => \E i \in DOMAIN ReturnedPages :
             /\ IsNumbered(ReturnedPages[i], current_page + 1)
             /\ ReturnedPages[i].url = Returned.next_url

C19_Witness ==
  /\ Done /\ IsNone(max_visible) /\ current_page = 6 /\ total_pages = 11
  /\ url_pattern = DemoPattern
  /\ IsNumbered(ReturnedPages[3], 5)
  /\ IsNumbered(ReturnedPages[5], 7)
  /\ ReturnedPages[3].url = Returned.prev_url
  /\ ReturnedPages[5].url = Returned.next_url

Response == response[1]

ResponsePages == Response.pagination_data.pages

(***************************************************************************)
(* C20: in table_demo, for every requested integer page and every number   *)
(* of filtered records from 0 to 100, total_pages is at least 1 and the    *)
(* page passed to build_pagination_data is within 1..total_pages, so the   *)
(* pagination data has exactly one active dict, the one of that page; the  *)
(* url rewriting leaves the ellipsis dicts as they were, and prev_url /    *)
(* next_url is None exactly when the page is 1 / is total_pages.           *)
(***************************************************************************)
C20_TableDemo ==
  ~IsNone(response)
  => /\ Response.total_pages >= 1
     /\ 1 <= Response.page /\ Response.page <= Response.total_pages
     /\ current_page = Response.page /\ total_pages = Response.total_pages
     /\ Len(ResponsePages) = Len(ReturnedPages)
     /\ Cardinality({i \in DOMAIN ResponsePages :
                       ResponsePages[i].is_active}) = 1
     /\ \A i \in DOMAIN ResponsePages :
          /\ ResponsePages[i].is_active
             => IsNumbered(ResponsePages[i], Response.page)
          /\ ReturnedPages[i].is_ellipsis
             => /\ ResponsePages[i] = ReturnedPages[i]
                /\ IsEllipsisDict(ResponsePages[i])
     /\ IsNone(Response.pagination_data.prev_url) <=> Response.page = 1
     /\ IsNone(Response.pagination_data.next_url)
        <=> Response.page = Response.total_pages

C20_Witness ==
  /\ ~IsNone(response)
  /\ request[1].page = 12 /\ request[1].total_records = 95
  /\ request[1].search = <<" ", "a", " ", "b", " ">>
  /\ request[1].sort = <<>>
  /\ Response.page = 10 /\ Response.total_pages = 10
  /\ IsEllipsisDict(ResponsePages[2])
  /\ ResponsePages[7].is_active
  /\ ResponsePages[7].url
       = Some(<<"/", "d", "e", "m", "o", "/", "t", "a", "b", "l", "e", "/",
                "?", "s", "e", "a", "r", "c", "h", "=", "a", "+", "b", "&",
                "p", "a", "g", "e", "=", "1", "0">>)
  /\ Response.pagination_data.prev_url
       = Some(<<"/", "d", "e", "m", "o", "/", "t", "a", "b", "l", "e", "/",
                "?", "s", "e", "a", "r", "c", "h", "=", "a", "+", "b", "&",
                "p", "a", "g", "e", "=", "9">>)
  /\ IsNone(Response.pagination_data.next_url)

HasReturned(c) == frame[c].pc \in {"returned", "rewriting", "finished"}

SameArguments(c, d) ==
  /\ frame[c].current_page = frame[d].current_page
  /\ frame[c].total_pages = frame[d].total_pages
  /\ frame[c].max_visible = frame[d].max_visible

(***************************************************************************)
(* What a call with the arguments of caller c returns when it runs alone.  *)
(***************************************************************************)
Alone(c) ==
  build_pagination_data(frame[c].current_page, frame[c].total_pages,
                        TablePattern, MaxVisibleParam(frame[c].max_visible))

(***************************************************************************)
(* C15: two calls with identical arguments return structurally equal       *)
(* results, whatever calls ran before or in between: the result each       *)
(* caller received depends on its arguments only.                          *)
(***************************************************************************)
C15_Idempotent ==
  \A c, d \in DOMAIN frame :
    (HasReturned(c) /\ HasReturned(d) /\ SameArguments(c, d))
    => frame[c].returned = frame[d].returned

C15_Witness ==
  /\ DOMAIN frame = Callers
  /\ frame[1].pc = "finished" /\ frame[2].pc = "returned"
  /\ SameArguments(1, 2)
  /\ frame[1].total_pages = 4 /\ frame[1].max_visible = Some(3)
  /\ frame[1].returned = frame[2].returned
  /\ Len(frame[2].returned[1].pages) = 3

(***************************************************************************)
(* The value caller c holds while it has rewritten the first i dicts of    *)
(* its own result and nobody else has touched it.                          *)
(***************************************************************************)
OwnValue(c) ==
  LET alone == Alone(c)
      rewritten == RewriteUrls(alone, frame[c].current_page, CallerSearch,
                               <<>>, Asc)
      done == IF frame[c].pc = "returned" THEN 0
              ELSE IF frame[c].pc = "rewriting" THEN frame[c].i
              ELSE Len(alone.pages)
  IN  [pages |-> [k \in DOMAIN alone.pages |->
                    IF k <= done THEN rewritten.pages[k]
                    ELSE alone.pages[k]],
       prev_url |-> IF frame[c].pc = "finished" THEN rewritten.prev_url
                    ELSE alone.prev_url,
       next_url |-> IF frame[c].pc = "finished" THEN rewritten.next_url
                    ELSE alone.next_url]

(***************************************************************************)
(* C16: in every interleaving of the callers, each caller receives the     *)
(* result it would receive alone, the lists of two callers are different   *)
(* objects, and the result a caller holds changes only by its own          *)
(* rewriting, never by the calls or the rewriting of the others.           *)
(***************************************************************************)
C16_Isolation ==
  \A c \in DOMAIN frame :
    HasReturned(c)
    => /\ frame[c].returned = Some(Alone(c))
       /\ Value(heap, frame[c].result[1]) = OwnValue(c)
       /\ \A d \in DOMAIN frame :
            (d # c /\ frame[d].pc # "start")
            => frame[d].pages # frame[c].pages

C16_Witness ==
  /\ DOMAIN frame = Callers
  /\ frame[1].pc = "finished" /\ frame[2].pc = "returned"
  /\ frame[1].total_pages = 4 /\ frame[2].total_pages = 4
  /\ IsNone(frame[1].max_visible) /\ IsNone(frame[2].max_visible)
  /\ frame[1].current_page = 2 /\ frame[2].current_page = 2
  /\ heap[frame[1].pages][3].url
       = Some(<<"/", "d", "e", "m", "o", "/", "t", "a", "b", "l", "e", "/",
                "?", "s", "e", "a", "r", "c", "h", "=", "a", "n", "n", "&",
                "p", "a", "g", "e", "=", "3">>)
  /\ heap[frame[2].pages][3].url
       = Some(<<"/", "d", "e", "m", "o", "/", "t", "a", "b", "l", "e", "/",
                "?", "p", "a", "g", "e", "=", "3">>)
  /\ Value(heap, frame[2].result[1]) = Alone(2)

====
